---- MODULE Spec2Model ----
(***************************************************************************)
(* Geominds QGIS Error Interceptor: the error gate of the plugin           *)
(* (ErrorInterceptorPlugin), the chat orchestrator (FloatingChatWidget)    *)
(* and the backend worker (ResponseThread) with the Qt signals between     *)
(* the worker thread and the UI thread.                                    *)
(*                                                                         *)
(* Text is a sequence of one-character strings, so that concatenation,     *)
(* strip() and the regular expressions of the normalizer are computed.     *)
(***************************************************************************)
EXTENDS Integers, Sequences, FiniteSets, TLC

(* ------------------------------ bounds --------------------------------- *)
\* calls of handle_qgis_error that reach the dedup gate
MaxGateCalls == 4
\* lines (or SDK updates) one response stream delivers
MaxLines == 2
\* user texts and intercepted errors the conversation takes
MaxInputs == 2
\* the same two bounds where the fairness conditions are checked
LiveLines == 1

LiveInputs == 1
\* characters of the text before and after the token of a sampled message
MaxContext == 2

\* sessions and lines per stream where sessions overlap
OverlapInputs == 3

OverlapLines == 1

\* actions the logger is given
MaxActions == 22

\* the largest n get_recent_actions is asked for
MaxAsked == 6

\* actions logged before the errors of the prompt
PromptActions == 2

(* ------------------------------- text ---------------------------------- *)
WhiteSpace == {" ", "\t", "\n"}

RECURSIVE LStrip(_)
LStrip(s) == IF s # <<>> /\ Head(s) \in WhiteSpace THEN LStrip(Tail(s)) ELSE s

RECURSIVE RStrip(_)
RStrip(s) ==
    IF s # <<>> /\ s[Len(s)] \in WhiteSpace THEN RStrip(SubSeq(s, 1, Len(s) - 1)) ELSE s

\* str.strip()
Strip(s) == RStrip(LStrip(s))

Last(s) == s[Len(s)]

(* ------------------- ErrorInterceptorPlugin: normalizer ---------------- *)
Digits == {"0", "1", "2", "3", "4", "5", "6", "7", "8", "9"}

HexDigits == Digits \cup {"a", "b", "c", "d", "e", "f", "A", "B", "C", "D", "E", "F"}

Letters ==
    {"a", "b", "c", "d", "e", "f", "g", "h", "i", "j", "k", "l", "m",
     "n", "o", "p", "q", "r", "s", "t", "u", "v", "w", "x", "y", "z",
     "A", "B", "C", "D", "E", "F", "G", "H", "I", "J", "K", "L", "M",
     "N", "O", "P", "Q", "R", "S", "T", "U", "V", "W", "X", "Y", "Z"}

\* \w
WordChars == Letters \cup Digits \cup {"_"}

Slashes == {"\\", "/"}

\* [\w\-\. \\\/]
PathChars == WordChars \cup {"-", ".", " "} \cup Slashes

\* length of the longest run of characters of class cls that starts at s[i]
RECURSIVE RunLength(_, _, _)
RunLength(s, i, cls) ==
    IF i <= Len(s) /\ s[i] \in cls THEN 1 + RunLength(s, i + 1, cls) ELSE 0

\* a pattern that takes one hexadecimal digit only: 0x[0-9a-fA-F]
AddressMatchOneDigit(s, i) ==
    IF i + 2 <= Len(s) /\ s[i] = "0" /\ s[i + 1] = "x" /\ s[i + 2] \in HexDigits
    THEN 3
    ELSE 0

\* length of the match of 0x[0-9a-fA-F]+ that starts at s[i], 0 when there is none
AddressMatch(s, i) ==
    IF i + 2 <= Len(s) /\ s[i] = "0" /\ s[i + 1] = "x" /\ s[i + 2] \in HexDigits
    THEN 2 + RunLength(s, i + 2, HexDigits)
    ELSE 0

\* \d{4}-\d{2}-\d{2} \d{2}:\d{2}:\d{2}, "9" standing for \d
TimestampPattern ==
    <<"9", "9", "9", "9", "-", "9", "9", "-", "9", "9", " ",
      "9", "9", ":", "9", "9", ":", "9", "9">>

TimestampMatch(s, i) ==
    IF /\ i + Len(TimestampPattern) - 1 <= Len(s)
       /\ \A k \in 1..Len(TimestampPattern) :
            IF TimestampPattern[k] = "9"
            THEN s[i + k - 1] \in Digits
            ELSE s[i + k - 1] = TimestampPattern[k]
    THEN Len(TimestampPattern)
    ELSE 0

\* (?:[a-zA-Z]\:)?(?:\\|\/)[\w\-\. \\\/]+
PathMatch(s, i) ==
    IF /\ i + 3 <= Len(s)
       /\ s[i] \in Letters /\ s[i + 1] = ":" /\ s[i + 2] \in Slashes
       /\ s[i + 3] \in PathChars
    THEN 3 + RunLength(s, i + 3, PathChars)
    ELSE IF i + 1 <= Len(s) /\ s[i] \in Slashes /\ s[i + 1] \in PathChars
         THEN 1 + RunLength(s, i + 1, PathChars)
         ELSE 0

\* re.sub(pattern, '', s): leftmost non-overlapping matches removed, scanning from s[i]
RECURSIVE ReSub(_, _, _)
ReSub(kind, s, i) ==
    IF i > Len(s) THEN <<>>
    ELSE LET n == CASE kind = "address" -> AddressMatch(s, i)
                    [] kind = "timestamp" -> TimestampMatch(s, i)
                    [] kind = "path" -> PathMatch(s, i)
         IN  IF n > 0 THEN ReSub(kind, s, i + n)
             ELSE <<s[i]>> \o ReSub(kind, s, i + 1)

_normalize_error_message(message) ==
    Strip(ReSub("path", ReSub("timestamp", ReSub("address", message, 1), 1), 1))

\* _similar_messages comparing the messages as delivered
SimilarAsDelivered(msg1, msg2) == msg1 = msg2

_similar_messages(msg1, msg2) ==
    _normalize_error_message(msg1) = _normalize_error_message(msg2)

(* ------------------------------ settings ------------------------------- *)
\* ErrorInterceptorPlugin.__init__: error_threshold and the default settings
error_threshold == 3

DefaultHistorySize == 50

DefaultSettings ==
    [api_type |-> "ollama",
     openai_api_url |-> "https://api.openai.com/v1/chat/completions",
     openai_api_key |-> "",
     azure_openai_endpoint |-> <<"https://your-azure-openai-endpoint", "/">>,
     azure_openai_deployment |-> "Meta-Llama-3-8B-Instruct",
     azure_openai_api_key |-> "",
     error_sensitivity |-> "medium",
     auto_intercept |-> TRUE,
     min_error_level |-> "Warning",
     group_similar_errors |-> TRUE,
     error_history_size |-> DefaultHistorySize,
     analyze_all_errors |-> FALSE]

(* ------------------------------ variables ------------------------------ *)
VARIABLES
    settings,              \* plugin.settings, shared with the widget
    chat_widget,           \* plugin.chat_widget is not None
    history,               \* FloatingChatWidget.history: messages [role, content, id]
    current_response,      \* FloatingChatWidget.current_response
    analysis_in_progress,  \* FloatingChatWidget.analysis_in_progress
    threads,               \* the ResponseThreads created so far, in creation order
    events,                \* queued signals of the worker threads, posted to the UI thread
    recent_errors,         \* ErrorInterceptorPlugin.recent_errors
    error_count,           \* ErrorInterceptorPlugin.error_count
    created,               \* history variable: created[id] is the content message id was created with
    open_msg,              \* history variable: id of the assistant message the running stream opened, 0 if none
    occurrences,           \* history variable: occurrences[i] counts the submissions matched to recent_errors[i]
    gate_log,              \* history variable: the calls of handle_qgis_error that reached the decision
    sample,                \* the messages the normalizer is applied to, and what it returned
    stream_log,            \* history variable: the lines the response stream delivered, in order
    action_history,        \* QGISActionLogger.action_history
    recent,                \* the last call of get_recent_actions: n, the log it read, what it returned
    hook,                  \* sys.excepthook, and the calls of the original hook for the last exception
    request_log            \* history variable: per thread, the conversation at its start and the one it sent

vars ==
    <<settings, chat_widget, history, current_response, analysis_in_progress, threads,
      events, recent_errors, error_count, created, open_msg, occurrences, gate_log,
      sample, stream_log, action_history, recent, hook, request_log>>

widget_vars == <<history, current_response, analysis_in_progress, threads, created, open_msg>>

gate_vars == <<recent_errors, error_count, occurrences, gate_log>>

logger_vars == <<action_history, recent>>

probe_vars == <<sample, stream_log, logger_vars, hook, request_log>>

(* --------------------------- FloatingChatWidget ------------------------ *)
InitialSystemPrompt == <<"You are Geominds, a QGIS assistant.">>

ErrorSystemPrompt == <<"# Geominds QGIS Error Analysis Protocol">>

Message(role, content, id) == [role |-> role, content |-> content, id |-> id]

\* the id the next message gets
NextId == Len(created) + 1

\* FloatingChatWidget.__init__: the state of a new widget
InitialHistory == <<Message("system", InitialSystemPrompt, 1)>>

\* ResponseThread.__init__, with the history variables of the session
\*   chunks: the texts emitted on response_chunk, finished: the number of
\*   response_finished emissions, ready: the notice emitted on response_ready ("" if none),
\*   requests: the network calls made, message: id of the message its first chunk went to
NewThread(prompt_text, is_error) ==
    [settings |-> settings, prompt_text |-> prompt_text, is_error |-> is_error,
     pc |-> "started", nread |-> 0,
     chunks |-> <<>>, finished |-> 0, ready |-> "", requests |-> 0, message |-> 0]

\* a thread object the widget no longer refers to, its run over and its signals delivered
Released ==
    [settings |-> DefaultSettings, prompt_text |-> <<>>, is_error |-> FALSE,
     pc |-> "released", nread |-> 0,
     chunks |-> <<>>, finished |-> 0, ready |-> "", requests |-> 0, message |-> 0]

Pending(t) == \E k \in 1..Len(events) : events[k].from = t

\* self.thread = ResponseThread(...): the widget drops its reference to the thread
\* before; threads still running, or with signals still queued, live on
Rebind(thread) ==
    [t \in 1..Len(threads) |->
        IF threads[t].pc = "done" /\ ~Pending(t) THEN Released ELSE threads[t]]
    \o <<thread>>

\* FloatingChatWidget.run_model_thread
run_model_thread(prompt_text, is_error) ==
    IF analysis_in_progress
    THEN UNCHANGED <<threads, analysis_in_progress>>
    ELSE /\ threads' = Rebind(NewThread(prompt_text, is_error))
         /\ analysis_in_progress' = TRUE


\* FloatingChatWidget.handle_user_input, raw being chat_input.toPlainText()
handle_user_input(raw) ==
    LET user_text == Strip(raw) IN
    IF user_text = <<>>
    THEN UNCHANGED widget_vars
    ELSE /\ history' = Append(history, Message("user", user_text, NextId))
         /\ created' = Append(created, user_text)
         /\ run_model_thread(user_text, FALSE)
         /\ UNCHANGED <<current_response, open_msg>>

\* build_error_prompt: severity_levels.get(int(level), str(level))
SeverityLabel(level) ==
    CASE level = 0 -> "Info"
      [] level = 1 -> "Warning"
      [] level = 2 -> "Critical"
      [] level = 3 -> "Success"
      [] OTHER -> ToString(level)

\* FloatingChatWidget.build_error_prompt
build_error_prompt(message, tag, level, parsed_content, user_actions) ==
    <<"# QGIS Error Analysis Request", "**Message**: ">> \o message
    \o <<"**Source**: ", tag, "**Severity**: ", SeverityLabel(level),
         "## Recent User Actions">> \o user_actions
    \o <<"## External References">>
    \o (IF parsed_content # <<>> THEN parsed_content
        ELSE <<"No external references found.">>)

\* '\n'.join(lines)
RECURSIVE JoinLines(_)
JoinLines(lines) ==
    IF lines = <<>> THEN <<>>
    ELSE IF Len(lines) = 1 THEN lines[1]
    ELSE lines[1] \o <<"\n">> \o JoinLines(Tail(lines))

\* FloatingChatWidget._format_error_display_as_markdown
_format_error_display_as_markdown(error) ==
    <<"# QGIS Error Detected", "**Error:** ">> \o error.message
    \o <<"**Source:** ", error.tag, "**Severity:** ", ToString(error.level),
         "**Recent User Actions:**">>
    \o (IF error.recent_actions # <<>> THEN JoinLines(error.recent_actions)
        ELSE <<"No recent actions recorded.">>)

\* what search_stackexchange does: returns text, returns None (no result, or a
\* reply that is not 200), or raises the exception of requests.get
SearchOutcomes == {"text", "none", "exception"}

SearchText == <<"external reference">>

\* an add_error_message that inserts its system message and removes none
AddErrorKeepSystem(error, search) ==
    IF analysis_in_progress \/ search = "exception"
    THEN UNCHANGED widget_vars
    ELSE LET error_display == _format_error_display_as_markdown(error)
             appended == Append(history, Message("user", error_display, NextId))
             error_prompt ==
                 build_error_prompt(error.message, error.tag, error.level,
                                    IF search = "text" THEN SearchText ELSE <<>>, <<>>)
         IN  /\ history' = <<Message("system", ErrorSystemPrompt, NextId + 1)>> \o appended
             /\ created' = created \o <<error_display, ErrorSystemPrompt>>
             /\ run_model_thread(error_prompt, TRUE)
             /\ UNCHANGED <<current_response, open_msg>>

\* FloatingChatWidget.add_error_message
add_error_message(error, search) ==
    IF analysis_in_progress \/ search = "exception"
    THEN UNCHANGED widget_vars
    ELSE LET error_display == _format_error_display_as_markdown(error)
             appended == Append(history, Message("user", error_display, NextId))
             error_prompt ==
                 build_error_prompt(error.message, error.tag, error.level,
                                    IF search = "text" THEN SearchText ELSE <<>>, <<>>)
         IN  /\ history' = <<Message("system", ErrorSystemPrompt, NextId + 1)>>
                           \o SelectSeq(appended, LAMBDA msg : msg.role # "system")
             /\ created' = created \o <<error_display, ErrorSystemPrompt>>
             /\ run_model_thread(error_prompt, TRUE)
             /\ UNCHANGED <<current_response, open_msg>>

\* FloatingChatWidget.handle_response_chunk, for a chunk of thread t
handle_response_chunk(t, chunk) ==
    LET opens == current_response = <<>>
                 /\ (history = <<>> \/ Last(history).role # "assistant")
        opened == IF opens THEN Append(history, Message("assistant", <<>>, NextId))
                  ELSE history
        response == current_response \o chunk
    IN  /\ current_response' = response
        /\ history' = [opened EXCEPT ![Len(opened)].content = response]
        /\ created' = IF opens THEN Append(created, <<>>) ELSE created
        /\ open_msg' = IF opens THEN NextId ELSE open_msg
        /\ threads' = [threads EXCEPT ![t].message =
                          IF @ = 0 THEN Last(opened).id ELSE @]
        /\ UNCHANGED analysis_in_progress

\* FloatingChatWidget.end_of_response
end_of_response ==
    /\ current_response' = <<>>
    /\ analysis_in_progress' = FALSE
    /\ open_msg' = 0
    /\ UNCHANGED <<history, threads, created>>

(* ----------------------------- ResponseThread -------------------------- *)
\* the text the n-th line of a response carries, when it carries one
ChunkAt(n) == <<<<"A">>, <<"B">>, <<"C">>, <<"D">>, <<"E">>, <<"F">>, <<"G">>, <<"H">>>>[n]

\* the n-th line carries its text or none
Texts(n) == {<<>>, ChunkAt(n)}

Line(kind, text, done) == [kind |-> kind, text |-> text, done |-> done]

\* response.iter_lines() of /api/generate: an empty line, a line that is no JSON,
\* JSON that is no object, or an object with `response` and `done`
OllamaLines(n) ==
    {Line(k, <<>>, FALSE) : k \in {"blank", "badjson", "nondict"}}
    \cup {Line("json", x, d) : x \in Texts(n), d \in BOOLEAN}

\* response.iter_lines() of the chat completions stream
OpenAILines(n) ==
    {Line(k, <<>>, FALSE) :
        k \in {"blank", "noprefix", "done_marker", "badjson", "nondict", "error"}}
    \cup {Line("delta", x, FALSE) : x \in Texts(n)}

\* the updates of client.complete(stream=True)
AzureUpdates(n) ==
    {Line("nochoices", <<>>, FALSE)}
    \cup {Line("delta", x, FALSE) : x \in Texts(n)}

response_chunk(t, text) == [sig |-> "response_chunk", from |-> t, text |-> text]

response_finished(t) == [sig |-> "response_finished", from |-> t, text |-> <<>>]

\* one step of thread t: its new record and the signals it emits, in order.
\* response_ready has no slot connected (run_model_thread), so nothing is queued for it.
Emit(t, thread, signals) ==
    /\ threads' = [threads EXCEPT ![t] =
           [thread EXCEPT
               !.chunks = @ \o SelectSeq(signals, LAMBDA e : e.sig = "response_chunk"),
               !.finished = @ + Len(SelectSeq(signals, LAMBDA e : e.sig = "response_finished"))]]
    /\ events' = events \o signals

\* response_ready.emit(notice), and where the run goes on
Fail(thread, notice, pc) == [thread EXCEPT !.ready = notice, !.pc = pc]

\* str.rstrip('/')
RECURSIVE RStripSlash(_)
RStripSlash(s) ==
    IF s # <<>> /\ s[Len(s)] = "/" THEN RStripSlash(SubSeq(s, 1, Len(s) - 1)) ELSE s

\* a check that forgets the key
AzureConfiguredWithoutKey(cfg) ==
    /\ RStripSlash(cfg.azure_openai_endpoint) # <<>>
    /\ cfg.azure_openai_deployment # ""

\* process_azure_openai_request: all([azure_endpoint, azure_deployment, azure_api_key])
AzureConfigured(cfg) ==
    /\ RStripSlash(cfg.azure_openai_endpoint) # <<>>
    /\ cfg.azure_openai_deployment # ""
    /\ cfg.azure_openai_api_key # ""

\* ResponseThread.run up to the reply to the request: the dispatch on api_type,
\* the configuration check and the request itself
RunRequest(t) ==
    LET th == threads[t]
        api == th.settings.api_type
        \* the settings and the prompt are read here and not again: the model forgets them
        read == [th EXCEPT !.settings = DefaultSettings, !.prompt_text = <<>>,
                           !.is_error = FALSE]
        sent == [read EXCEPT !.requests = @ + 1]
    IN
    /\ th.pc = "started"
    /\ CASE api = "ollama" ->
              \/ Emit(t, [sent EXCEPT !.pc = "ollama_stream"], <<>>)
              \/ Emit(t, Fail(sent, "API Error", "run_finally"), <<response_finished(t)>>)
         [] api = "openai" ->
              IF th.settings.openai_api_url = ""
              THEN Emit(t, Fail(read, "Request error", "openai_finally"), <<>>)
              ELSE \/ Emit(t, [sent EXCEPT !.pc = "openai_stream"], <<>>)
                   \/ Emit(t, Fail(sent, "Request error", "openai_finally"), <<>>)
                   \/ Emit(t, Fail(sent, "API Error: status", "openai_finally"), <<>>)
         [] api = "azure_openai" ->
              IF ~AzureConfigured(th.settings)
              THEN Emit(t, Fail(read, "Azure OpenAI configuration is incomplete.", "run_finally"), <<>>)
              ELSE \/ Emit(t, [sent EXCEPT !.pc = "azure_stream"], <<>>)
                   \/ Emit(t, Fail(sent, "Error", "run_finally"), <<response_finished(t)>>)
         [] OTHER ->
              Emit(t, Fail(read, "Unsupported API type.", "run_finally"), <<>>)

\* a loop that leaves on done before it looks at the response of the object
OllamaLineDoneFirst(t, line) ==
    LET th == [threads[t] EXCEPT !.nread = @ + 1]
        chunk == IF line.text # <<>> THEN <<response_chunk(t, line.text)>> ELSE <<>>
    IN
    CASE line.kind \in {"blank", "badjson"} -> Emit(t, th, <<>>)
      [] line.kind = "nondict" ->
           Emit(t, Fail(th, "API Error", "run_finally"), <<response_finished(t)>>)
      [] line.kind = "json" ->
           IF line.done
           THEN Emit(t, [th EXCEPT !.pc = "run_finally"], <<response_finished(t)>>)
           ELSE Emit(t, th, chunk)

\* process_ollama_request: one turn of the loop over response.iter_lines()
OllamaLine(t, line) ==
    LET th == [threads[t] EXCEPT !.nread = @ + 1]
        chunk == IF line.text # <<>> THEN <<response_chunk(t, line.text)>> ELSE <<>>
    IN
    CASE line.kind \in {"blank", "badjson"} -> Emit(t, th, <<>>)
      [] line.kind = "nondict" ->
           Emit(t, Fail(th, "API Error", "run_finally"), <<response_finished(t)>>)
      [] line.kind = "json" ->
           IF line.done
           THEN Emit(t, [th EXCEPT !.pc = "run_finally"],
                     chunk \o <<response_finished(t)>>)
           ELSE Emit(t, th, chunk)

\* a loop that skips a line with an error field like any other line without content
OpenAILineSkipsError(t, line) ==
    LET th == [threads[t] EXCEPT !.nread = @ + 1] IN
    CASE line.kind \in {"blank", "noprefix", "done_marker", "badjson", "nondict", "error"} ->
           Emit(t, th, <<>>)
      [] line.kind = "delta" ->
           Emit(t, th, IF line.text # <<>> THEN <<response_chunk(t, line.text)>> ELSE <<>>)

\* process_openai_request: one turn of the loop over response.iter_lines()
OpenAILine(t, line) ==
    LET th == [threads[t] EXCEPT !.nread = @ + 1] IN
    CASE line.kind \in {"blank", "noprefix", "done_marker", "badjson", "nondict"} ->
           Emit(t, th, <<>>)
      [] line.kind = "error" ->
           Emit(t, Fail(th, "API Error: payload", "openai_finally"), <<>>)
      [] line.kind = "delta" ->
           Emit(t, th, IF line.text # <<>> THEN <<response_chunk(t, line.text)>> ELSE <<>>)

\* process_azure_openai_request: one turn of the loop over the updates
AzureUpdate(t, update) ==
    LET th == [threads[t] EXCEPT !.nread = @ + 1] IN
    Emit(t, th, IF update.kind = "delta" /\ update.text # <<>>
                THEN <<response_chunk(t, update.text)>> ELSE <<>>)

\* the text of the next line of thread t: the replies to different requests differ
TextNo(t) == threads[t].nread + t

\* response.iter_lines(), or the updates of the client: what the stream of thread t
\* can deliver next
StreamLines(t) ==
    LET th == threads[t] IN
    CASE th.pc = "ollama_stream" -> OllamaLines(TextNo(t))
      [] th.pc = "openai_stream" -> OpenAILines(TextNo(t))
      [] th.pc = "azure_stream" -> AzureUpdates(TextNo(t))
      [] OTHER -> {}

\* one turn of the loop thread t is in, on the line the stream delivered
ReadLineOf(t, line) ==
    CASE threads[t].pc = "ollama_stream" -> OllamaLine(t, line)
      [] threads[t].pc = "openai_stream" -> OpenAILine(t, line)
      [] threads[t].pc = "azure_stream" -> AzureUpdate(t, line)
      [] OTHER -> FALSE

\* the stream delivers its next line, one of at most max_lines
ReadLine(t, max_lines) ==
    /\ threads[t].nread < max_lines
    /\ \E line \in StreamLines(t) : ReadLineOf(t, line)

\* the stream ends: the connection is closed, or reading it raises
EndOfStream(t) ==
    LET th == threads[t]
    IN
    \/ /\ th.pc = "ollama_stream"
       /\ \/ Emit(t, [th EXCEPT !.pc = "run_finally"], <<response_finished(t)>>)
          \/ Emit(t, Fail(th, "API Error", "run_finally"),
                  <<response_finished(t)>>)
    \/ /\ th.pc = "openai_stream"
       /\ \/ Emit(t, [th EXCEPT !.pc = "openai_finally"], <<response_finished(t)>>)
          \/ Emit(t, Fail(th, "Request error", "openai_finally"), <<>>)
    \/ /\ th.pc = "azure_stream"
       /\ \/ Emit(t, [th EXCEPT !.pc = "run_finally"], <<response_finished(t)>>)
          \/ Emit(t, Fail(th, "Error", "run_finally"),
                  <<response_finished(t)>>)

\* the finally clause of process_openai_request
OpenAIFinally(t) ==
    /\ threads[t].pc = "openai_finally"
    /\ Emit(t, [threads[t] EXCEPT !.pc = "run_finally"], <<response_finished(t)>>)

\* a run whose finally clause emits nothing
RunFinallySilent(t) ==
    /\ threads[t].pc = "run_finally"
    /\ Emit(t, [threads[t] EXCEPT !.pc = "done"], <<>>)

\* the finally clause of ResponseThread.run
RunFinally(t) ==
    /\ threads[t].pc = "run_finally"
    /\ Emit(t, [threads[t] EXCEPT !.pc = "done"], <<response_finished(t)>>)

(* ---------------------------- QGISActionLogger ------------------------- *)
\* QGISActionLogger.__init__: self.max_history
max_history == 20

\* the default of get_recent_actions(n=5)
DefaultRecent == 5

Max(a, b) == IF a >= b THEN a ELSE b

\* the Python slice s[start:]
SliceFrom(s, start) ==
    LET first == IF start < 0 THEN Max(Len(s) + start, 0) ELSE start IN
    IF first >= Len(s) THEN <<>> ELSE SubSeq(s, first + 1, Len(s))

\* the entry add_to_history builds
Action(timestamp, type, details) ==
    [timestamp |-> timestamp, type |-> type, details |-> details]

\* QGISActionLogger.add_to_history: the log after the call
add_to_history(log, action) ==
    LET appended == Append(log, action) IN
    IF Len(appended) > max_history THEN Tail(appended) ELSE appended

\* f"{action['timestamp']} - {action['type']}: {action['details']}"
FormatAction(action) ==
    <<ToString(action.timestamp), " - ", action.type, ": ", action.details>>

\* QGISActionLogger.get_recent_actions
get_recent_actions(log, n) ==
    LET picked == IF log # <<>> THEN SliceFrom(log, 0 - n) ELSE <<>> IN
    [k \in 1..Len(picked) |-> FormatAction(picked[k])]

\* no call of get_recent_actions yet
NoRecent == [asked |-> 0 - 1, log |-> <<>>, returned |-> <<>>]

\* sys.excepthook after ErrorInterceptorPlugin.__init__
InitialHook == [installed |-> "plugin", calls |-> 0]

(* ------------------------- ErrorInterceptorPlugin ---------------------- *)
\* Qgis.MessageLevel
QgisInfo == 0

QgisWarning == 1

QgisCritical == 2

QgisSuccess == 3

\* getattr(Qgis, min_level_name, Qgis.Warning)
MinLevel(name) ==
    CASE name = "Info" -> QgisInfo
      [] name = "Critical" -> QgisCritical
      [] name = "Success" -> QgisSuccess
      [] OTHER -> QgisWarning

\* a filter that never looks at auto_intercept
ShouldProcessWithoutSwitch(level) ==
    IF level \in {QgisSuccess, QgisInfo} THEN FALSE
    ELSE IF settings.analyze_all_errors THEN TRUE
    ELSE IF level < MinLevel(settings.min_error_level) THEN FALSE
    ELSE IF settings.error_sensitivity = "low" /\ level < QgisCritical THEN FALSE
    ELSE IF settings.error_sensitivity = "medium" /\ level < QgisWarning THEN FALSE
    ELSE TRUE

\* ErrorInterceptorPlugin._should_process_error
_should_process_error(level) ==
    IF level \in {QgisSuccess, QgisInfo} THEN FALSE
    ELSE IF settings.analyze_all_errors THEN TRUE
    ELSE IF level < MinLevel(settings.min_error_level) THEN FALSE
    ELSE IF ~settings.auto_intercept THEN FALSE
    ELSE IF settings.error_sensitivity = "low" /\ level < QgisCritical THEN FALSE
    ELSE IF settings.error_sensitivity = "medium" /\ level < QgisWarning THEN FALSE
    ELSE TRUE

\* the records of recent_errors the loop of _is_duplicate_error matches
Matches(error_context) ==
    {i \in 1..Len(recent_errors) :
        /\ recent_errors[i].tag = error_context.tag
        /\ _similar_messages(recent_errors[i].message, error_context.message)}

Min(S) == CHOOSE x \in S : \A y \in S : x <= y

\* ErrorInterceptorPlugin._is_duplicate_error: its return value
IsDuplicate(error_context) == Matches(error_context) # {}

\* a store that never evicts
KeepAll(error_context) ==
    IF IsDuplicate(error_context)
    THEN /\ occurrences' = [occurrences EXCEPT ![Min(Matches(error_context))] = @ + 1]
         /\ UNCHANGED recent_errors
    ELSE /\ recent_errors' = Append(recent_errors, error_context)
         /\ occurrences' = Append(occurrences, 1)

\* ErrorInterceptorPlugin._is_duplicate_error: what it does to recent_errors
_is_duplicate_error(error_context) ==
    IF IsDuplicate(error_context)
    THEN /\ occurrences' = [occurrences EXCEPT ![Min(Matches(error_context))] = @ + 1]
         /\ UNCHANGED recent_errors
    ELSE LET appended == Append(recent_errors, error_context)
             counted == Append(occurrences, 1)
         IN  IF Len(appended) > settings.error_history_size
             THEN /\ recent_errors' = Tail(appended)
                  /\ occurrences' = Tail(counted)
             ELSE /\ recent_errors' = appended
                  /\ occurrences' = counted

\* the entry of gate_log for one call: the error, whether it was found in
\* recent_errors, the occurrence count of its record and whether it went on to the widget
GateEntry(error_context, grouped, found, processed) ==
    [tag |-> error_context.tag,
     fingerprint |-> _normalize_error_message(error_context.message),
     recent_actions |-> error_context.recent_actions,
     grouped |-> grouped, found |-> found, processed |-> processed,
     count |-> IF ~grouped THEN 0
               ELSE IF found THEN occurrences[Min(Matches(error_context))] + 1
               ELSE 1]

\* a gate that holds a duplicate back by the occurrences of its own record
HeldByOccurrences(found) == found /\ error_count + 2 < error_threshold

\* handle_qgis_error: after `self.error_count += 1` for a duplicate, the early
\* return of `if self.error_count < self.error_threshold`
Held(found) == found /\ error_count + 1 < error_threshold

\* ErrorInterceptorPlugin.handle_qgis_error
handle_qgis_error(message, tag, level, search) ==
    LET error_context ==
            [message |-> message, tag |-> tag, level |-> level,
             recent_actions |-> get_recent_actions(action_history, DefaultRecent)]
        grouped == settings.group_similar_errors
        found == grouped /\ IsDuplicate(error_context)
        held == Held(found)
    IN
    IF ~_should_process_error(level)
    THEN UNCHANGED <<gate_vars, widget_vars, chat_widget>>
    ELSE /\ IF grouped THEN _is_duplicate_error(error_context)
            ELSE UNCHANGED <<recent_errors, occurrences>>
         /\ error_count' = IF found THEN error_count + 1 ELSE error_count
         /\ gate_log' = Append(gate_log, GateEntry(error_context, grouped, found, ~held))
         /\ IF held
            THEN UNCHANGED <<widget_vars, chat_widget>>
            ELSE /\ chat_widget' = TRUE
                 /\ add_error_message(error_context, search)

\* ErrorInterceptorPlugin.handle_python_exception, message being str(exc_value)
handle_python_exception(message, search) ==
    /\ chat_widget' = TRUE
    /\ add_error_message([message |-> message, tag |-> "Python Exception",
                          level |-> QgisCritical, recent_actions |-> <<>>], search)

\* the calls of self.original_excepthook in handle_python_exception: the one of
\* the except clause when the handling raised, and the one after the try statement
OriginalCalls(raised) == (IF raised THEN 1 ELSE 0) + 1

(* ------------------------------- inputs -------------------------------- *)
\* chat_input.toPlainText() when Send is pressed
UserTexts == {<<" ">>, <<"h", "i", " ">>}

\* str(exc_value) of an uncaught exception
ExceptionMessages == {<<"K", "e", "y">>}

\* backend configurations the settings dialog, or settings.json, can hold
WithApi(api_type, url, key, endpoint, deployment, azure_key) ==
    [DefaultSettings EXCEPT
        !.api_type = api_type, !.openai_api_url = url, !.openai_api_key = key,
        !.azure_openai_endpoint = endpoint, !.azure_openai_deployment = deployment,
        !.azure_openai_api_key = azure_key]

Endpoint == DefaultSettings.azure_openai_endpoint

DialogApiSettings ==
    {WithApi("ollama", "url", "", Endpoint, "dep", ""),
     WithApi("openai", "url", "key", Endpoint, "dep", ""),
     WithApi("openai", "", "key", Endpoint, "dep", ""),
     WithApi("azure_openai", "url", "", Endpoint, "dep", "key"),
     WithApi("azure_openai", "url", "", Endpoint, "dep", "")}

\* settings.json can also name an api_type the dialog does not offer
LoadedSettings == DialogApiSettings \cup {WithApi("other", "url", "", Endpoint, "dep", "")}

\* configurations with a field left empty: the key of the chat completions API,
\* the endpoint or the deployment of Azure OpenAI
SessionSettings ==
    LoadedSettings
    \cup {WithApi("openai", "url", "", Endpoint, "dep", ""),
          WithApi("azure_openai", "url", "", <<>>, "dep", "key"),
          WithApi("azure_openai", "url", "", <<"/">>, "dep", "key"),
          WithApi("azure_openai", "url", "", Endpoint, "", "key")}

\* SettingsDialog: the range of the error_history_size spin box starts at 3
MinHistorySize == 3

HistorySizes == {MinHistorySize, MinHistorySize + 1}

\* the grouping part of what the settings dialog returns
DialogGateSettings ==
    {[DefaultSettings EXCEPT !.group_similar_errors = g, !.error_history_size = n] :
        g \in BOOLEAN, n \in HistorySizes}

\* messages QgsMessageLog delivers: two that differ in an address only, and a third
GateMessages ==
    {<<"E", " ", "0", "x", "1", "f">>, <<"E", " ", "0", "x", "2", "a">>, <<"F">>}

GateTags == {"core", "gdal"}

\* the errors submitted: four (tag, fingerprint) classes, one of them with two spellings
GateErrors ==
    {[message |-> m, tag |-> g] : m \in GateMessages, g \in GateTags}
    \ {[message |-> <<"E", " ", "0", "x", "2", "a">>, tag |-> "gdal"]}

GateLevels == {QgisInfo, QgisCritical}

\* the settings of the filter the dialog, or settings.json, can hold
FilterSettings ==
    {[DefaultSettings EXCEPT
         !.auto_intercept = a, !.analyze_all_errors = b,
         !.min_error_level = m, !.error_sensitivity = s] :
        a \in BOOLEAN, b \in BOOLEAN,
        m \in {"Info", "Warning", "Critical"}, s \in {"low", "medium", "high"}}

\* the gate does not depend on the search: here it finds nothing
GateSearch == {"none"}

\* text around the token of a sampled message: digits, the x of an address,
\* blanks and slashes
ContextChars == {"0", "x", " ", "/"}

Contexts == UNION {[1..n -> ContextChars] : n \in 0..MaxContext}

AddressTokens == {<<"0", "x", "1", "f">>, <<"0", "x", "2", "a">>}

TimestampTokens ==
    {<<"2", "0", "2", "4", "-", "0", "1", "-", "0", "1", " ",
       "1", "0", ":", "0", "0", ":", "0", "0">>,
     <<"2", "0", "2", "5", "-", "1", "2", "-", "3", "1", " ",
       "2", "3", ":", "5", "9", ":", "5", "9">>}

\* the token of a message and the token that stands in its place in the variant
TokenPairs ==
    {pair \in (AddressTokens \X AddressTokens) \cup (TimestampTokens \X TimestampTokens) :
        pair[1] # pair[2]}

\* a message before + token + after and its variant, nothing normalized yet
Sample(before, pair, after) ==
    [before |-> before, after |-> after,
     message |-> before \o pair[1] \o after, variant |-> before \o pair[2] \o after,
     applied |-> 0, fingerprint |-> <<>>, variant_fingerprint |-> <<>>, twice |-> <<>>]

Samples == {Sample(b, p, a) : b \in Contexts, p \in TokenPairs, a \in Contexts}

NoSample == Sample(<<>>, <<<<>>, <<>>>>, <<>>)

(* ------------------------------- actions ------------------------------- *)
\* the user texts and error displays the conversation holds
Inputs == Len(SelectSeq(history, LAMBDA msg : msg.role = "user"))

\* the state after ErrorInterceptorPlugin.__init__ and initGui (load_config).  The
\* widget does not exist yet (chat_widget = FALSE); its fields hold the values
\* FloatingChatWidget.__init__ gives them.
Init ==
    /\ settings \in LoadedSettings
    /\ chat_widget = FALSE
    /\ history = InitialHistory
    /\ current_response = <<>>
    /\ analysis_in_progress = FALSE
    /\ threads = <<>>
    /\ events = <<>>
    /\ recent_errors = <<>>
    /\ error_count = 0
    /\ created = <<InitialSystemPrompt>>
    /\ open_msg = 0
    /\ occurrences = <<>>
    /\ gate_log = <<>>
    /\ sample = NoSample
    /\ stream_log = <<>>
    /\ action_history = <<>>
    /\ recent = NoRecent
    /\ hook = InitialHook
    /\ request_log = <<>>

\* ErrorInterceptorPlugin.run: the toolbar action
Run ==
    /\ ~chat_widget
    /\ chat_widget' = TRUE
    /\ UNCHANGED <<settings, widget_vars, events, gate_vars, probe_vars>>

\* FloatingChatWidget.open_settings, the dialog accepted with the settings `chosen`
OpenSettings(chosen) ==
    /\ chat_widget
    /\ chosen # settings
    /\ settings' = chosen
    /\ UNCHANGED <<chat_widget, widget_vars, events, gate_vars, probe_vars>>

\* the backend is changed between sessions, while the model still takes input
ChangeBackend ==
    /\ ~analysis_in_progress
    /\ Inputs < MaxInputs
    /\ \E chosen \in DialogApiSettings : OpenSettings(chosen)

\* the grouping settings are changed
ChangeGrouping == \E chosen \in DialogGateSettings : OpenSettings(chosen)

\* QgsMessageLog.messageReceived delivers a message to handle_qgis_error
HandleQgisError(searches) ==
    /\ Len(gate_log) < MaxGateCalls
    /\ \E error \in GateErrors, level \in GateLevels, search \in searches :
          handle_qgis_error(error.message, error.tag, level, search)
    /\ UNCHANGED <<settings, events, probe_vars>>

\* Send pressed, or Enter in the input field, for one of at most max_inputs inputs
HandleUserInput(max_inputs) ==
    /\ chat_widget
    /\ Inputs < max_inputs
    /\ \E raw \in UserTexts : handle_user_input(raw)
    /\ UNCHANGED <<settings, chat_widget, events, gate_vars, probe_vars>>

\* sys.excepthook called with an uncaught exception
HandlePythonException(max_inputs) ==
    /\ Inputs < max_inputs
    /\ \E message \in ExceptionMessages, search \in SearchOutcomes :
          handle_python_exception(message, search)
    /\ UNCHANGED <<settings, events, gate_vars, probe_vars>>

\* the UI thread's event loop delivers the oldest queued signal to its slot
HandleResponseChunk ==
    /\ events # <<>>
    /\ Head(events).sig = "response_chunk"
    /\ handle_response_chunk(Head(events).from, Head(events).text)
    /\ events' = Tail(events)
    /\ UNCHANGED <<settings, chat_widget, gate_vars, probe_vars>>

EndOfResponse ==
    /\ events # <<>>
    /\ Head(events).sig = "response_finished"
    /\ end_of_response
    /\ events' = Tail(events)
    /\ UNCHANGED <<settings, chat_widget, gate_vars, probe_vars>>

\* what a step of a worker thread leaves alone
ui_vars ==
    <<settings, chat_widget, history, current_response, analysis_in_progress,
      created, open_msg, gate_vars>>

\* the steps of the worker threads
WorkerRequest == \E t \in 1..Len(threads) : RunRequest(t) /\ UNCHANGED <<ui_vars, probe_vars>>

WorkerLine(max_lines) ==
    \E t \in 1..Len(threads) : ReadLine(t, max_lines) /\ UNCHANGED <<ui_vars, probe_vars>>

\* the same step, the line it read kept in stream_log
WorkerLineLogged(max_lines) ==
    \E t \in 1..Len(threads) :
        /\ threads[t].nread < max_lines
        /\ \E line \in StreamLines(t) :
              /\ ReadLineOf(t, line)
              /\ stream_log' = Append(stream_log, line)
        /\ UNCHANGED <<ui_vars, sample, logger_vars, hook, request_log>>

WorkerEndOfStream == \E t \in 1..Len(threads) : EndOfStream(t) /\ UNCHANGED <<ui_vars, probe_vars>>

WorkerOpenAIFinally == \E t \in 1..Len(threads) : OpenAIFinally(t) /\ UNCHANGED <<ui_vars, probe_vars>>

WorkerRunFinally == \E t \in 1..Len(threads) : RunFinally(t) /\ UNCHANGED <<ui_vars, probe_vars>>

Next ==
    \/ Run
    \/ ChangeBackend
    \/ HandleUserInput(MaxInputs)
    \/ HandlePythonException(MaxInputs)
    \/ HandleResponseChunk
    \/ EndOfResponse
    \/ WorkerRequest
    \/ WorkerLine(MaxLines)
    \/ WorkerEndOfStream
    \/ WorkerOpenAIFinally
    \/ WorkerRunFinally

Spec == Init /\ [][Next]_vars

\* the event loop of the UI thread keeps delivering queued signals, and a worker
\* thread keeps running: its request returns or raises, its stream moves on or ends
Fairness ==
    /\ WF_vars(HandleResponseChunk)
    /\ WF_vars(EndOfResponse)
    /\ WF_vars(WorkerRequest)
    /\ WF_vars(WorkerEndOfStream)
    /\ WF_vars(WorkerOpenAIFinally)
    /\ WF_vars(WorkerRunFinally)

\* the sessions of one backend: the settings stay as they were loaded
NextLive ==
    \/ Run
    \/ HandleUserInput(LiveInputs)
    \/ HandlePythonException(LiveInputs)
    \/ HandleResponseChunk
    \/ EndOfResponse
    \/ WorkerRequest
    \/ WorkerLine(LiveLines)
    \/ WorkerEndOfStream
    \/ WorkerOpenAIFinally
    \/ WorkerRunFinally

SpecLive == Init /\ [][NextLive]_vars /\ Fairness

\* three messages of the user to /api/generate: a session can start while an
\* earlier one still runs
InitOverlap ==
    /\ settings = DefaultSettings
    /\ chat_widget = FALSE
    /\ history = InitialHistory
    /\ current_response = <<>>
    /\ analysis_in_progress = FALSE
    /\ threads = <<>>
    /\ events = <<>>
    /\ recent_errors = <<>>
    /\ error_count = 0
    /\ created = <<InitialSystemPrompt>>
    /\ open_msg = 0
    /\ occurrences = <<>>
    /\ gate_log = <<>>
    /\ sample = NoSample
    /\ stream_log = <<>>
    /\ action_history = <<>>
    /\ recent = NoRecent
    /\ hook = InitialHook
    /\ request_log = <<>>

NextOverlap ==
    \/ Run
    \/ HandleUserInput(OverlapInputs)
    \/ HandleResponseChunk
    \/ EndOfResponse
    \/ WorkerRequest
    \/ WorkerLine(OverlapLines)
    \/ WorkerEndOfStream
    \/ WorkerRunFinally

SpecOverlap == InitOverlap /\ [][NextOverlap]_vars

\* the dedup gate: the errors of QgsMessageLog and the grouping settings
InitGate ==
    /\ settings \in DialogGateSettings
    /\ chat_widget = FALSE
    /\ history = InitialHistory
    /\ current_response = <<>>
    /\ analysis_in_progress = FALSE
    /\ threads = <<>>
    /\ events = <<>>
    /\ recent_errors = <<>>
    /\ error_count = 0
    /\ created = <<InitialSystemPrompt>>
    /\ open_msg = 0
    /\ occurrences = <<>>
    /\ gate_log = <<>>
    /\ sample = NoSample
    /\ stream_log = <<>>
    /\ action_history = <<>>
    /\ recent = NoRecent
    /\ hook = InitialHook
    /\ request_log = <<>>

NextGate ==
    \/ Run
    \/ ChangeGrouping
    \/ HandleQgisError(GateSearch)

SpecGate == InitGate /\ [][NextGate]_vars

\* the normalizer applied to sampled messages
InitNormalizer ==
    /\ settings = DefaultSettings
    /\ chat_widget = FALSE
    /\ history = InitialHistory
    /\ current_response = <<>>
    /\ analysis_in_progress = FALSE
    /\ threads = <<>>
    /\ events = <<>>
    /\ recent_errors = <<>>
    /\ error_count = 0
    /\ created = <<InitialSystemPrompt>>
    /\ open_msg = 0
    /\ occurrences = <<>>
    /\ gate_log = <<>>
    /\ sample \in Samples
    /\ stream_log = <<>>
    /\ action_history = <<>>
    /\ recent = NoRecent
    /\ hook = InitialHook
    /\ request_log = <<>>

\* _similar_messages normalizes the message and its variant
Normalize ==
    /\ sample.applied = 0
    /\ sample' = [sample EXCEPT
           !.applied = 1,
           !.fingerprint = _normalize_error_message(sample.message),
           !.variant_fingerprint = _normalize_error_message(sample.variant)]
    /\ UNCHANGED <<settings, chat_widget, widget_vars, events, gate_vars, stream_log,
                   logger_vars, hook, request_log>>

\* the normalizer applied to what it returned
NormalizeAgain ==
    /\ sample.applied = 1
    /\ sample' = [sample EXCEPT
           !.applied = 2,
           !.twice = _normalize_error_message(sample.fingerprint)]
    /\ UNCHANGED <<settings, chat_widget, widget_vars, events, gate_vars, stream_log,
                   logger_vars, hook, request_log>>

NextNormalizer ==
    \/ Normalize
    \/ NormalizeAgain

SpecNormalizer == InitNormalizer /\ [][NextNormalizer]_vars

\* the errors of QgsMessageLog and what the search does for them
NextIntercept ==
    \/ Run
    \/ HandleQgisError(SearchOutcomes)

SpecIntercept == InitGate /\ [][NextIntercept]_vars

\* the actions of the user the logger is told of
ActionTypes == {"layer_added"}

ActionDetails == {"roads"}

\* the number of the next action, its timestamp
Logged == IF action_history = <<>> THEN 0 ELSE Last(action_history).timestamp

\* a slot of QGISActionLogger logs an action
LogAction(max_actions) ==
    /\ Logged < max_actions
    /\ \E type \in ActionTypes, details \in ActionDetails :
          action_history' = add_to_history(action_history, Action(Logged + 1, type, details))
    /\ UNCHANGED <<settings, chat_widget, widget_vars, events, gate_vars, sample,
                   stream_log, recent, hook, request_log>>

\* a caller asks for the n most recent actions
GetRecentActions ==
    /\ \E n \in 0..MaxAsked :
          recent' = [asked |-> n, log |-> action_history,
                     returned |-> get_recent_actions(action_history, n)]
    /\ UNCHANGED <<settings, chat_widget, widget_vars, events, gate_vars, sample,
                   stream_log, action_history, hook, request_log>>

NextActions ==
    \/ LogAction(MaxActions)
    \/ GetRecentActions

SpecActions == Init /\ [][NextActions]_vars

\* the filter of the messages of QgsMessageLog
InitFilter ==
    /\ settings \in FilterSettings
    /\ chat_widget = FALSE
    /\ history = InitialHistory
    /\ current_response = <<>>
    /\ analysis_in_progress = FALSE
    /\ threads = <<>>
    /\ events = <<>>
    /\ recent_errors = <<>>
    /\ error_count = 0
    /\ created = <<InitialSystemPrompt>>
    /\ open_msg = 0
    /\ occurrences = <<>>
    /\ gate_log = <<>>
    /\ sample = NoSample
    /\ stream_log = <<>>
    /\ action_history = <<>>
    /\ recent = NoRecent
    /\ hook = InitialHook
    /\ request_log = <<>>

NextFilter ==
    \/ Run
    \/ HandleQgisError(GateSearch)

SpecFilter == InitFilter /\ [][NextFilter]_vars

\* the interpreter calls sys.excepthook with an uncaught exception: the handler of
\* the plugin, whose own handling can raise before it reaches the widget, or the
\* original hook once the plugin is unloaded
ExceptHook(max_inputs) ==
    /\ Inputs < max_inputs
    /\ \E message \in ExceptionMessages, search \in SearchOutcomes, raised \in BOOLEAN :
          IF hook.installed = "plugin"
          THEN /\ IF raised THEN UNCHANGED <<widget_vars, chat_widget>>
                  ELSE handle_python_exception(message, search)
               /\ hook' = [hook EXCEPT !.calls = OriginalCalls(raised)]
          ELSE /\ hook' = [hook EXCEPT !.calls = 1]
               /\ UNCHANGED <<widget_vars, chat_widget>>
    /\ UNCHANGED <<settings, events, gate_vars, sample, stream_log, logger_vars,
                   request_log>>

\* ErrorInterceptorPlugin.unload
Unload ==
    /\ hook.installed = "plugin"
    /\ hook' = [hook EXCEPT !.installed = "original"]
    /\ chat_widget' = FALSE
    /\ UNCHANGED <<settings, widget_vars, events, gate_vars, sample, stream_log,
                   logger_vars, request_log>>

\* uncaught exceptions before and after the plugin is unloaded
NextHook ==
    \/ ExceptHook(MaxInputs)
    \/ Unload
    \/ HandleResponseChunk
    \/ EndOfResponse
    \/ WorkerRequest
    \/ WorkerLine(MaxLines)
    \/ WorkerEndOfStream
    \/ WorkerRunFinally

SpecHook == InitOverlap /\ [][NextHook]_vars

\* the actions of the user and the errors that follow them
NextPrompt ==
    \/ Run
    \/ LogAction(PromptActions)
    \/ HandleQgisError(GateSearch)

SpecPrompt == InitGate /\ [][NextPrompt]_vars

\* the same input, the conversation kept in request_log when a thread is created
\* with it: ResponseThread(self.history, ...)
HandleUserInputLogged(max_inputs) ==
    /\ chat_widget
    /\ Inputs < max_inputs
    /\ \E raw \in UserTexts : handle_user_input(raw)
    /\ request_log' =
          IF Len(threads') > Len(threads)
          THEN Append(request_log, [accepted |-> history', sent |-> <<>>, asked |-> FALSE])
          ELSE request_log
    /\ UNCHANGED <<settings, chat_widget, events, gate_vars, sample, stream_log,
                   logger_vars, hook>>

\* the same step, the messages of the request kept in request_log: the thread
\* reads the list it was created with, the list the widget appends to
WorkerRequestLogged ==
    \E t \in 1..Len(threads) :
        /\ RunRequest(t)
        /\ request_log' = [request_log EXCEPT ![t].sent = history, ![t].asked = TRUE]
        /\ UNCHANGED <<ui_vars, sample, stream_log, logger_vars, hook>>

\* the messages of the user and the requests of the sessions they start
NextRequest ==
    \/ Run
    \/ HandleUserInputLogged(MaxInputs)
    \/ HandleResponseChunk
    \/ EndOfResponse
    \/ WorkerRequestLogged
    \/ WorkerLine(MaxLines)
    \/ WorkerEndOfStream
    \/ WorkerOpenAIFinally
    \/ WorkerRunFinally

SpecRequest == Init /\ [][NextRequest]_vars

\* one session from its start to its end, the lines of its stream logged
InitSession ==
    /\ settings \in SessionSettings
    /\ chat_widget = FALSE
    /\ history = InitialHistory
    /\ current_response = <<>>
    /\ analysis_in_progress = FALSE
    /\ threads = <<>>
    /\ events = <<>>
    /\ recent_errors = <<>>
    /\ error_count = 0
    /\ created = <<InitialSystemPrompt>>
    /\ open_msg = 0
    /\ occurrences = <<>>
    /\ gate_log = <<>>
    /\ sample = NoSample
    /\ stream_log = <<>>
    /\ action_history = <<>>
    /\ recent = NoRecent
    /\ hook = InitialHook
    /\ request_log = <<>>

\* the first message of the user
FirstUserInput == threads = <<>> /\ HandleUserInput(MaxInputs)

\* the first uncaught exception
FirstPythonException == threads = <<>> /\ HandlePythonException(MaxInputs)

NextSession ==
    \/ Run
    \/ FirstUserInput
    \/ FirstPythonException
    \/ HandleResponseChunk
    \/ EndOfResponse
    \/ WorkerRequest
    \/ WorkerLineLogged(MaxLines)
    \/ WorkerEndOfStream
    \/ WorkerOpenAIFinally
    \/ WorkerRunFinally

SpecSession == InitSession /\ [][NextSession]_vars

(* ------------------------------- sessions ------------------------------ *)
\* session t is over: run() has returned and every signal it emitted is delivered
Ended(t) == threads[t].pc \in {"done", "released"} /\ ~Pending(t)

\* the sessions a run of the model can start
Sessions == 1..MaxInputs

\* session t is Streaming: its request is in flight or its stream is being read,
\* and it has emitted neither a failure notice nor a finished notification
Streaming(t) ==
    threads[t].pc \in {"started", "ollama_stream", "openai_stream", "azure_stream"}

StreamingSessions == {t \in 1..Len(threads) : Streaming(t)}

\* the sessions whose history variables are still kept
Observed == {t \in 1..Len(threads) : Ended(t) /\ threads[t].pc = "done"}

\* c1 + c2 + ... + cn
RECURSIVE Concat(_)
Concat(chunks) == IF chunks = <<>> THEN <<>> ELSE Head(chunks).text \o Concat(Tail(chunks))

\* C1: at most one session is Streaming, and while one is, the widget is busy, so
\* that run_model_thread rejects a start
C1_SingleFlight ==
    /\ Cardinality(StreamingSessions) <= 1
    /\ StreamingSessions # {} => analysis_in_progress

\* a step in which a start is requested of a busy widget: nothing is started,
\* nothing is delivered, the widget stays busy
RejectedStart ==
    /\ analysis_in_progress
    /\ analysis_in_progress'
    /\ threads' = threads
    /\ events' = events

\* C2: a start rejected because the widget is busy leaves the conversation as it
\* was, for a user text and for an intercepted error
C2_RejectedStartNoEffect == [][RejectedStart => history' = history]_vars

\* C3: when a session that emitted chunks is over, its assistant message holds
\* the chunks, concatenated in emission order
C3_OrderPreserved ==
    \A t \in Observed :
        threads[t].chunks # <<>> =>
            \E k \in 1..Len(history) :
                /\ history[k].id = threads[t].message
                /\ history[k].role = "assistant"
                /\ history[k].content = Concat(threads[t].chunks)

\* C4: every started session ends, whatever the backend and the outcome of its
\* request, with its finished notifications delivered, and a busy widget becomes
\* idle again
C4_EventuallyIdle ==
    /\ \A t \in Sessions : (Len(threads) >= t) ~> (Len(threads) >= t /\ Ended(t))
    /\ analysis_in_progress ~> ~analysis_in_progress

\* a session ended on a backend type run() does not know, where only the finally
\* clause of run() emits the finished notification, and the widget is idle
C4_Witness ==
    \E t \in Observed :
        /\ threads[t].ready = "Unsupported API type."
        /\ threads[t].finished = 1
        /\ ~analysis_in_progress

\* C5: when a session that failed is over, the conversation holds its failure
\* notice as a message
C5_FailureNoticeAppended ==
    \A t \in Observed :
        threads[t].ready # "" =>
            \E k \in 1..Len(history) : history[k].content = <<threads[t].ready>>

\* C6: user and system messages hold the content they were created with
C6_MessagesImmutable ==
    \A k \in 1..Len(history) :
        history[k].role \in {"user", "system"} =>
            history[k].content = created[history[k].id]
(* ------------------------------ dedup gate ------------------------------ *)
\* C7: an error found in the store goes on to the widget exactly when the
\* occurrence count of its own record has reached the threshold
C7_RepeatRule ==
    \A k \in 1..Len(gate_log) :
        gate_log[k].found =>
            (gate_log[k].processed <=> gate_log[k].count >= error_threshold)

\* a call that reaches the gate with grouping enabled and an error not in the store
FirstOccurrence ==
    /\ Len(gate_log') = Len(gate_log) + 1
    /\ Last(gate_log').grouped
    /\ ~Last(gate_log').found

\* C8: an error not in the store goes on to the widget, and one record for it is
\* added at the end of the store, the oldest record leaving when the store would
\* exceed error_history_size
C8_FirstOccurrence ==
    [][FirstOccurrence =>
        LET entry == Last(gate_log')
            kept == SubSeq(recent_errors', 1, Len(recent_errors') - 1)
        IN  /\ entry.processed
            /\ recent_errors' # <<>>
            /\ Last(recent_errors').tag = entry.tag
            /\ _normalize_error_message(Last(recent_errors').message) = entry.fingerprint
            /\ kept = IF Len(recent_errors) + 1 > settings.error_history_size
                      THEN Tail(recent_errors) ELSE recent_errors]_vars

\* the store was full and a further first occurrence came: the call after
\* MinHistorySize first occurrences is one too, and the store holds MinHistorySize
C8_Witness ==
    /\ Len(gate_log) = MinHistorySize + 1
    /\ \A k \in 1..Len(gate_log) :
          gate_log[k].grouped /\ ~gate_log[k].found /\ gate_log[k].processed
    /\ settings.error_history_size = MinHistorySize
    /\ Len(recent_errors) = MinHistorySize

\* every call so far reached the gate with grouping enabled and carried the same
\* error: one tag, messages equal after normalization
SameErrorLog ==
    /\ gate_log # <<>>
    /\ \A k \in 1..Len(gate_log) :
          /\ gate_log[k].grouped
          /\ gate_log[k].tag = gate_log[1].tag
          /\ gate_log[k].fingerprint = gate_log[1].fingerprint

C10_Capacity == Len(recent_errors) <= settings.error_history_size
(* ------------------------------ normalizer ------------------------------ *)
\* [A-Za-z0-9_]
IsWordChar(c) == c \in WordChars

\* the token stands on its own: no letter, digit or underscore touches it
Delimited ==
    /\ sample.before # <<>> => ~IsWordChar(Last(sample.before))
    /\ sample.after # <<>> => ~IsWordChar(Head(sample.after))

C12_Idempotent == sample.applied = 2 => sample.twice = sample.fingerprint
(* ----------------------------- conversation ----------------------------- *)
SystemMessages == {k \in 1..Len(history) : history[k].role = "system"}

\* C13: the conversation holds at most one system message, and holds it first
C13_OneSystemAtHead == SystemMessages \subseteq {1}

\* two error-analysis cycles have run: the conversation holds both error displays,
\* an answer, and the system message the second cycle inserted
C13_Witness ==
    /\ Len(threads) = 2
    /\ Inputs = 2
    /\ \E k \in 1..Len(history) : history[k].role = "assistant"
    /\ history[1].role = "system"
    /\ history[1].content = ErrorSystemPrompt
    /\ history[1].id = Len(created)

(* ------------------------------ the stream ----------------------------- *)
\* the session of SpecSession has run up to its stream, or past it
Started == threads # <<>> /\ threads[1].pc # "started"

\* the texts of the chunks the session emitted, in order
Emitted ==
    IF threads = <<>> THEN <<>>
    ELSE [k \in 1..Len(threads[1].chunks) |-> threads[1].chunks[k].text]

\* the places of the log holding a line of one of the kinds
Places(kinds) == {k \in 1..Len(stream_log) : stream_log[k].kind \in kinds}

\* the first n lines of the log
Before(n) == SubSeq(stream_log, 1, n)

\* the texts of the lines that carry one, in line order
RECURSIVE Carried(_)
Carried(lines) ==
    IF lines = <<>> THEN <<>>
    ELSE (IF Head(lines).text # <<>> THEN <<Head(lines).text>> ELSE <<>>)
         \o Carried(Tail(lines))

\* C14: the chunks of a chat completions stream are the contents of the data lines
\* before its first [DONE] line: no line after it yields a chunk
C14_DoneEndsStream ==
    settings.api_type = "openai" /\ Places({"done_marker"}) # {}
        => Emitted = Carried(Before(Min(Places({"done_marker"})) - 1))

\* the lines json.loads rejects, and those it decodes to something that is no object
Malformed == {"badjson", "nondict"}

\* the step reads a malformed line from the stream of /api/generate or of the chat
\* completions API
ReadsMalformed ==
    /\ settings.api_type \in {"ollama", "openai"}
    /\ stream_log' # stream_log
    /\ Last(stream_log').kind \in Malformed

\* C15: reading a malformed line leaves the session reading its stream, with no
\* failure and no end signalled, and the well-formed lines around malformed ones
\* all yield their chunks
C15_MalformedSkipped ==
    /\ [][ReadsMalformed
            => /\ threads'[1].pc = threads[1].pc
               /\ threads'[1].ready = ""
               /\ threads'[1].finished = threads[1].finished]_vars
    /\ [](settings.api_type \in {"ollama", "openai"}
            /\ (\A k \in 1..Len(stream_log) :
                    /\ stream_log[k].kind \in Malformed \cup {"json", "delta"}
                    /\ k < Len(stream_log) => ~stream_log[k].done)
            => Emitted = Carried(stream_log))

AssistantMessages == SelectSeq(history, LAMBDA msg : msg.role = "assistant")

\* the lines {response: "A", done: false}, {response: "", done: true}
TwoLineReply == <<Line("json", ChunkAt(1), FALSE), Line("json", <<>>, TRUE)>>

\* C17: the session of /api/generate emits the non-empty responses of the lines it
\* read, in line order, reads no line after one with done, and has signalled the
\* end of the stream once it has left the loop, on done or on the close of the
\* connection; after the two-line reply the conversation holds one assistant
\* message, with the response of the first line, and the widget is idle
C17_LocalModelTranslation ==
    settings.api_type = "ollama" /\ Started
        => /\ Emitted = Carried(stream_log)
           /\ \A k \in 1..Len(stream_log) : stream_log[k].done => k = Len(stream_log)
           /\ stream_log # <<>> /\ Last(stream_log).done
                => threads[1].pc \in {"run_finally", "done"}
           /\ threads[1].pc \in {"run_finally", "done"} => threads[1].finished >= 1
           /\ stream_log = TwoLineReply /\ Ended(1)
                => /\ Len(AssistantMessages) = 1
                   /\ AssistantMessages[1].content = ChunkAt(1)
                   /\ ~analysis_in_progress

\* the two-line reply was read, its chunk and its end delivered
C17_Witness ==
    /\ settings.api_type = "ollama"
    /\ stream_log = TwoLineReply
    /\ Ended(1)
    /\ Len(AssistantMessages) = 1

(* ---------------------------- configuration ---------------------------- *)
\* the endpoint, the deployment or the key of Azure OpenAI is empty
AzureFieldEmpty ==
    \/ settings.azure_openai_endpoint = <<>>
    \/ settings.azure_openai_deployment = ""
    \/ settings.azure_openai_api_key = ""

\* C18: with an empty endpoint, deployment or key the session of Azure OpenAI emits
\* its failure notice without a client or a request, reads no stream and emits no
\* chunk, and when it is over it has signalled its end and the widget is idle
C18_ManagedCloudPrecondition ==
    settings.api_type = "azure_openai" /\ AzureFieldEmpty /\ Started
        => /\ threads[1].requests = 0
           /\ threads[1].ready = "Azure OpenAI configuration is incomplete."
           /\ threads[1].pc \in {"run_finally", "done"}
           /\ stream_log = <<>>
           /\ Emitted = <<>>
           /\ Ended(1) => threads[1].finished >= 1 /\ ~analysis_in_progress

\* a session with the key left empty is over
C18_Witness ==
    /\ settings.api_type = "azure_openai"
    /\ settings.azure_openai_api_key = ""
    /\ settings.azure_openai_endpoint # <<>>
    /\ threads # <<>>
    /\ Ended(1)
    /\ threads[1].requests = 0
    /\ ~analysis_in_progress

\* the selected backend lacks a credential: the key or the URL of the chat
\* completions API, or a field of Azure OpenAI
MissingCredential ==
    \/ /\ settings.api_type = "openai"
       /\ settings.openai_api_key = "" \/ settings.openai_api_url = ""
    \/ /\ settings.api_type = "azure_openai"
       /\ AzureFieldEmpty

\* C19: a session whose backend lacks a credential has emitted a failure notice
\* and has sent no request
C19_ConfigFailsFast ==
    MissingCredential /\ Started
        => /\ threads[1].requests = 0
           /\ threads[1].ready # ""

(* ------------------------------ the search ----------------------------- *)
\* the calls of handle_qgis_error that went on to add_error_message
Intercepted == {k \in 1..Len(gate_log) : gate_log[k].processed}

\* C20: once an error was handed to the idle widget, whatever the search did, the
\* error is in the conversation and a session was started with its prompt
C20_SearchBestEffort ==
    Intercepted # {}
        => /\ threads # <<>>
           /\ threads[1].is_error
           /\ \E k \in 1..Len(history) : history[k].role = "user"

(* ------------------------- the assistant message ------------------------ *)
\* the content of the message with this id, after the step
ContentAfter(id) ==
    {history'[j].content : j \in {i \in 1..Len(history') : history'[i].id = id}}

\* the sessions that are over and whose first chunk went into a message
Closed == {t \in 1..Len(threads) : Ended(t) /\ threads[t].message # 0}

\* C21: the assistant message of a session that is over keeps its content in
\* every step
C21_ClosedMessage ==
    [][\A t \in Closed : \A k \in 1..Len(history) :
          history[k].id = threads[t].message
              => ContentAfter(history[k].id) = {history[k].content}]_vars

(* ----------------------------- recent actions --------------------------- *)
\* the k-th of the last n entries of the log get_recent_actions read
NewestOf(n, k) == recent.log[Len(recent.log) - n + k]

\* C22: get_recent_actions(n) returns at most n entries, the newest of the log in
\* the order they were logged
C22_RecentActions ==
    recent.asked >= 0
        => LET count == IF recent.asked <= Len(recent.log) THEN recent.asked
                        ELSE Len(recent.log)
           IN  /\ Len(recent.returned) <= recent.asked
               /\ Len(recent.returned) = count
               /\ \A k \in 1..count :
                     recent.returned[k] = FormatAction(NewestOf(count, k))

(* ------------------------------ the prompt ------------------------------ *)
\* part is a run of consecutive elements of whole
IsInfix(part, whole) ==
    \E i \in 0..(Len(whole) - Len(part)) : SubSeq(whole, i + 1, i + Len(part)) = part

\* C23: the prompt of the session an intercepted error started holds the recent
\* actions gathered for that error, its tag and its severity
C23_PromptEmbedsActions ==
    Intercepted # {} /\ threads # <<>>
        => LET error == gate_log[Min(Intercepted)]
               prompt == threads[1].prompt_text
           IN  /\ IsInfix(JoinLines(error.recent_actions), prompt)
               /\ IsInfix(<<"**Source**: ", error.tag>>, prompt)
               /\ IsInfix(<<"**Severity**: ", SeverityLabel(QgisCritical)>>, prompt)

(* --------------------------- the end of a run --------------------------- *)
\* C24: a run that has returned has emitted response_finished once
C24_OneTerminalEvent ==
    \A t \in 1..Len(threads) : threads[t].pc = "done" => threads[t].finished = 1

(* ---------------------------- the conversation -------------------------- *)
\* the user and assistant messages of a conversation, in its order
Exchanged(messages) == SelectSeq(messages, LAMBDA msg : msg.role # "system")

\* C25: in every step the user and assistant messages stay, in their order, new
\* ones come after them, and a user message keeps the text that was submitted
C25_AppendOnly ==
    [][LET old == Exchanged(history)
           new == Exchanged(history')
       IN  /\ Len(old) <= Len(new)
           /\ \A k \in 1..Len(old) :
                 /\ new[k].id = old[k].id
                 /\ new[k].role = old[k].role
                 /\ old[k].role = "user" => new[k].content = old[k].content]_vars

\* the step delivers a chunk to handle_response_chunk
ChunkDelivered ==
    /\ events # <<>>
    /\ Head(events).sig = "response_chunk"
    /\ events' = Tail(events)

\* C26: a chunk opens a message only if it is the first chunk of its session, and
\* every chunk of a session goes into the message its first chunk opened
C26_OneMessagePerSession ==
    [][ChunkDelivered
          => LET t == Head(events).from IN
             /\ Len(history') > Len(history) => threads[t].message = 0
             /\ Last(history').id = threads'[t].message]_vars

(* ------------------------------ the request ----------------------------- *)
\* C27: the messages a session sends are the conversation as it was when its
\* thread was created
C27_RequestSnapshot ==
    \A t \in 1..Len(request_log) :
        request_log[t].asked => request_log[t].sent = request_log[t].accepted

(* ------------------------------- the filter ----------------------------- *)
\* C28: with auto_intercept off no message of QgsMessageLog reaches the gate,
\* starts a session or adds a message to the conversation
C28_AutoInterceptOff ==
    ~settings.auto_intercept
        => /\ gate_log = <<>>
           /\ threads = <<>>
           /\ history = InitialHistory

\* C28, amended: with auto_intercept off and analyze_all_errors off no message of
\* QgsMessageLog reaches the gate, starts a session or adds a message to the
\* conversation; analyze_all_errors lets a message through whatever auto_intercept is
C28_OffUnlessAnalyzeAll ==
    ~settings.auto_intercept /\ ~settings.analyze_all_errors
        => /\ gate_log = <<>>
           /\ threads = <<>>
           /\ history = InitialHistory

\* auto_intercept is off, and a Critical message started a session
C28_Witness ==
    /\ ~settings.auto_intercept
    /\ settings.analyze_all_errors
    /\ Intercepted # {}
    /\ threads # <<>>
    /\ threads[1].is_error

(* ------------------------------- the hook ------------------------------- *)
\* C29: the original excepthook was called once for the last uncaught exception,
\* and the plugin, once unloaded, leaves it installed
C29_HookChaining ==
    /\ [](hook.calls \in {0, 1})
    /\ [][hook.installed = "original" => hook'.installed = "original"]_vars

(* ------------------------------ the store ------------------------------- *)
\* the records of the store agreeing with (tag, fingerprint)
StoredAs(tag, fingerprint) ==
    {i \in 1..Len(recent_errors) :
        /\ recent_errors[i].tag = tag
        /\ _normalize_error_message(recent_errors[i].message) = fingerprint}

\* no two records of the store have one tag and one normalized message
UniqueRecords ==
    \A i \in 1..Len(recent_errors) :
        StoredAs(recent_errors[i].tag,
                 _normalize_error_message(recent_errors[i].message)) = {i}

\* the step passes an error to the gate that a record of the store agrees with
RepeatOfStored ==
    /\ Len(gate_log') = Len(gate_log) + 1
    /\ StoredAs(Last(gate_log').tag, Last(gate_log').fingerprint) # {}

\* C30: the store never holds two records with the same tag and the same
\* normalized message, and a repeat of a stored error leaves the store as it was
C30_StoreUnique ==
    /\ [](UniqueRecords)
    /\ [][RepeatOfStored => recent_errors' = recent_errors]_vars

\* the store is full, holds different errors, and the last call was a repeat of
\* one of them whose message carries an address
C30_Witness ==
    /\ Len(recent_errors) = settings.error_history_size
    /\ Len(recent_errors) >= 2
    /\ gate_log # <<>>
    /\ Last(gate_log).grouped /\ Last(gate_log).found
    /\ \E i \in StoredAs(Last(gate_log).tag, Last(gate_log).fingerprint) :
          recent_errors[i].message \in GateMessages \ {<<"F">>}
    /\ \E k \in 1..(Len(gate_log) - 1) :
          /\ gate_log[k].tag = Last(gate_log).tag
          /\ gate_log[k].fingerprint = Last(gate_log).fingerprint

====
